---- MODULE Spec2Model ----
(***************************************************************************)
(* Model of the NBA data-synchronisation scripts: the timezone-preserving  *)
(* date parser, the three batch upsert scripts (players, game stats,       *)
(* projections), the odds enrichment and the retention delete, all acting  *)
(* on one relational store through the Prisma client.                      *)
(***************************************************************************)
EXTENDS Integers, Sequences, FiniteSets, TLC

VARIABLES
    now,          \* the wall clock, whole seconds since the epoch (new Date())
    isoString,    \* the argument of parseISODatePreservingTimezone under test
    parsed,       \* what the parser returned for isoString (Pending before)
    players,      \* table nba_players: a set of rows
    gameStats,    \* table nba_game_stats: a set of rows
    projections,  \* table projections: a set of rows
    script,       \* the batch script this behaviour invokes (process.argv[1])
    pc,           \* the batch script: "idle", "running" or "tallied"
    file,         \* the batch script's parsed input file (what the handlers share)
    results,      \* the batch script: one marker per record, Pending until settled
    tally,        \* the batch script: the counts it logged
    caught,       \* history: per settled index, the record's name, the error caught,
                  \* and whether an enrichment was between its two store calls
    last,         \* history: the latest handler call the store did not reject
    enrich,       \* updateProjectionsWithOdds: its arguments and position
    enrichResult, \* updateProjectionsWithOdds: the value it returned
    del,          \* deleteOldProjections: its position and captured instant
    delResult,    \* deleteOldProjections: the JSON it printed
    exit          \* the exit code of the process that ended last, and its cause

dateVars == <<isoString, parsed>>
tables == <<players, gameStats, projections>>
batchVars == <<script, pc, file, results, tally, caught, last>>
enrichVars == <<enrich, enrichResult>>
delVars == <<del, delResult>>
vars == <<now, dateVars, tables, batchVars, enrichVars, delVars, exit>>

(***************************************************************************)
(* JavaScript values.  Each kind of value is a record with its own field   *)
(* name, so that values of different kinds can be compared.                *)
(***************************************************************************)
\* undefined: an absent property.
Undefined == [undefined |-> TRUE]
\* null, which is also SQL NULL in a stored row.
Null == [null |-> TRUE]
\* The number NaN.
NaN == [nan |-> TRUE]
\* A finite number; fractions are not needed, numbers are integers here.
Num(n) == [num |-> n]
\* A string that is not a timestamp and not the text of a number.
Str(s) == [str |-> s]
\* The string that is the decimal text of the number n, e.g. "12".
NumStr(n) == [numstr |-> n]
\* true and false.
Bool(b) == [bool |-> b]
\* new Date(x) for an x that is no date: a Date whose time value is NaN.
InvalidDate == [invalidDate |-> TRUE]
\* Not a JavaScript value: no call has returned yet.
Pending == [pending |-> TRUE]

(***************************************************************************)
(* ECMAScript Date arithmetic.  A Date's time value is milliseconds since  *)
(* the epoch; it is kept here as the pair (day number, millisecond of the  *)
(* day), which is Day(t) and TimeWithinDay(t) of the language standard.    *)
(***************************************************************************)
msPerSecond == 1000
msPerMinute == 60 * msPerSecond
msPerHour == 60 * msPerMinute
msPerDay == 24 * msPerHour

\* MakeDate(day, time): day * msPerDay + time, time of any sign or size.
MakeDate(day, time) ==
    [day |-> day + (time \div msPerDay), ms |-> time % msPerDay]

\* MakeTime(hour, min, sec, ms).
MakeTime(hour, min, sec, ms) ==
    hour * msPerHour + min * msPerMinute + sec * msPerSecond + ms

\* DayFromYear(y): the day number of 1 January of year y.
DayFromYear(y) ==
    365 * (y - 1970) + ((y - 1969) \div 4) - ((y - 1901) \div 100)
        + ((y - 1601) \div 400)

InLeapYear(y) == (y % 4 = 0) /\ ((y % 100 # 0) \/ (y % 400 = 0))

\* Days of month m (0-based) in year y.
DaysInMonth(y, m) ==
    IF m = 1 THEN (IF InLeapYear(y) THEN 29 ELSE 28)
    ELSE IF m \in {3, 5, 8, 10} THEN 30 ELSE 31

RECURSIVE DaysBeforeMonth(_, _)
DaysBeforeMonth(y, m) ==
    IF m = 0 THEN 0 ELSE DaysBeforeMonth(y, m - 1) + DaysInMonth(y, m - 1)

\* MakeDay(year, month, date): month is 0-based and may overflow into the
\* following years, date may overflow into the following months.
MakeDay(year, month, date) ==
    LET ym == year + (month \div 12)
        mn == month % 12
    IN  DayFromYear(ym) + DaysBeforeMonth(ym, mn) + date - 1

\* A variant of DateUTC without the two-digit-year rule.
DateUTCFullYear(year, month, date, hours, minutes, seconds) ==
    MakeDate(MakeDay(year, month, date), MakeTime(hours, minutes, seconds, 0))

\* Date.UTC(year, month, date, hours, minutes, seconds): a year of 0..99 is
\* taken as 1900 + year.
DateUTC(year, month, date, hours, minutes, seconds) ==
    LET yr == IF year >= 0 /\ year <= 99 THEN 1900 + year ELSE year
    IN  MakeDate(MakeDay(yr, month, date), MakeTime(hours, minutes, seconds, 0))

getUTCHours(d) == d.ms \div msPerHour
getUTCMinutes(d) == (d.ms % msPerHour) \div msPerMinute
getUTCSeconds(d) == (d.ms % msPerMinute) \div msPerSecond
getUTCMilliseconds(d) == d.ms % msPerSecond

\* date.setUTCMinutes(min): the minute field replaced, out-of-range values
\* carried into the hours and days.
setUTCMinutes(d, min) ==
    MakeDate(d.day, MakeTime(getUTCHours(d), min, getUTCSeconds(d),
                             getUTCMilliseconds(d)))

\* YearFromTime / MonthFromTime / DateFromTime, computed from the day number
\* by the civil-from-days algorithm (eras of 400 years starting 1 March).
CivilFromDays(day) ==
    LET z == day + 719468
        era == z \div 146097
        doe == z % 146097
        yoe == (doe - (doe \div 1460) + (doe \div 36524) - (doe \div 146096)) \div 365
        doy == doe - (365 * yoe + (yoe \div 4) - (yoe \div 100))
        mp == (5 * doy + 2) \div 153
        d == doy - ((153 * mp + 2) \div 5) + 1
        m == IF mp < 10 THEN mp + 3 ELSE mp - 9
        y == yoe + era * 400 + (IF m <= 2 THEN 1 ELSE 0)
    IN  [year |-> y, month |-> m, date |-> d]

getUTCFullYear(d) == CivilFromDays(d.day).year
\* 0-based, as in JavaScript.
getUTCMonth(d) == CivilFromDays(d.day).month - 1
getUTCDate(d) == CivilFromDays(d.day).date

\* new Date() at clock reading t (whole seconds).
NewDate(t) == MakeDate(0, t * msPerSecond)

\* a < b on Dates (the store's lt filter on a timestamp column).
DateLT(a, b) == a.day < b.day \/ (a.day = b.day /\ a.ms < b.ms)

(***************************************************************************)
(* Timestamp strings.  A string that matches the pattern                   *)
(*   ^(\d{4})-(\d{2})-(\d{2})T(\d{2}):(\d{2}):(\d{2})([+-]\d{2}:\d{2})$    *)
(* is the record of its captured groups, each a sequence of decimal        *)
(* digits; any other string is the record of what the generic              *)
(* new Date(string) makes of it.  Undefined and "" are falsy.              *)
(***************************************************************************)
EmptyString == Str("")

\* !isoString
IsFalsy(s) == s \in {Undefined, Null, EmptyString}

\* isoString.match(...) is not null.
IsMatch(s) == "tzh" \in DOMAIN s

\* A string the pattern does not match, which new Date(string) reads as d.
OtherString(d) == [generic |-> d]

\* parseInt(digits, 10) of a string of decimal digits.
RECURSIVE parseInt10(_)
parseInt10(ds) ==
    IF ds = <<>> THEN 0
    ELSE 10 * parseInt10(SubSeq(ds, 1, Len(ds) - 1)) + ds[Len(ds)]

\* The signed offset in minutes of a matched string (lines 28-31).
tzOffsetMinutes(s) ==
    LET tzSign == IF s.sign = "-" THEN -1 ELSE 1
        tzHours == parseInt10(s.tzh)
        tzMinutes == parseInt10(s.tzm)
    IN  tzSign * (tzHours * 60 + tzMinutes)

\* parseISODatePreservingTimezone(isoString), called at clock reading t.
parseISODatePreservingTimezone(s, t) ==
    IF IsFalsy(s) THEN NewDate(t)
    ELSE IF ~IsMatch(s) THEN s.generic
    ELSE LET date == DateUTC(parseInt10(s.year), parseInt10(s.month) - 1,
                             parseInt10(s.day), parseInt10(s.hour),
                             parseInt10(s.minute), parseInt10(s.second))
         IN  setUTCMinutes(date, getUTCMinutes(date) - tzOffsetMinutes(s))

(***************************************************************************)
(* JavaScript coercions used by the scripts.                               *)
(***************************************************************************)
\* parseFloat(v): a number, the number a numeric string spells, NaN for
\* anything else (undefined, null, a string with no leading number).
parseFloat(v) ==
    IF "num" \in DOMAIN v THEN v
    ELSE IF "numstr" \in DOMAIN v THEN Num(v.numstr)
    ELSE NaN

\* The truthiness of a value.
Truthy(v) == v \notin {Undefined, Null, NaN, Num(0), Str(""), Bool(FALSE)}

\* left || right
Or(left, right) == IF Truthy(left) THEN left ELSE right

\* new Date(v) of a string (generic parsing) or of undefined.
NewDateOf(v) == IF "generic" \in DOMAIN v THEN v.generic ELSE InvalidDate

(***************************************************************************)
(* The Prisma client over the three tables.  A table is the set of its     *)
(* rows; a row is a record with every column of the model, SQL NULL being  *)
(* Null.  The audit columns created_at and updated_at, which the store     *)
(* itself maintains and no script reads or writes, are left out.           *)
(* In a data argument a property that is undefined is left out of the      *)
(* query: on update the column keeps its value, on create it takes NULL.   *)
(* `reject` stands for every failure of the store itself (connection       *)
(* lost, constraint violated, conflicting concurrent write).               *)
(***************************************************************************)
NbaPlayerFields == {"playerID", "position", "team", "playerName", "teamID"}
NbaPlayerRequired == NbaPlayerFields

ProjectionOddsFields ==
    {"homeTeam", "awayTeam", "homeSpread", "awaySpread", "totalOver",
     "totalUnder", "homeMoneyline", "awayMoneyline", "oddsProvider",
     "oddsLastUpdated"}
ProjectionRequired ==
    {"projectionId", "playerName", "team", "position", "statType",
     "lineScore", "gameId", "startTime", "status"}
ProjectionFields ==
    ProjectionRequired \cup {"average", "maxValue", "opponent", "imageUrl",
                             "oddsType"} \cup ProjectionOddsFields

NbaGameStatsNumeric ==
    {"points", "rebounds", "offensiveRebounds", "defensiveRebounds",
     "assists", "steals", "blocks", "turnovers", "personalFouls",
     "technicalFouls", "fieldGoalsMade", "fieldGoalsAttempted",
     "threePointersMade", "threePointersAttempted", "freeThrowsMade",
     "freeThrowsAttempted"}
NbaGameStatsFields ==
    {"id", "gameId", "playerId", "playerName", "team", "teamAbbreviation",
     "teamId", "gameDate", "opponent", "isHome", "plusMinus",
     "minutesPlayed", "fieldGoalPercentage", "threePointPercentage",
     "freeThrowPercentage", "fantasyPoints"} \cup NbaGameStatsNumeric
NbaGameStatsRequired == NbaGameStatsFields

\* A row satisfies a where-clause of equalities.
Matches(row, where) == \A k \in DOMAIN where : row[k] = where[k]

\* The client refuses a data argument before any SQL is sent: an invalid
\* Date, null for a column that is not nullable.
DataInvalid(data, required) ==
    \E f \in DOMAIN data :
        data[f] = InvalidDate \/ (f \in required /\ data[f] = Null)

\* A create argument must also give every column that is not nullable.
CreateInvalid(data, required) ==
    \/ DataInvalid(data, required)
    \/ \E f \in required : f \notin DOMAIN data \/ data[f] = Undefined

WhereInvalid(where) == \E k \in DOMAIN where : where[k] \in {Undefined, Null}

HasNaN(data) == \E f \in DOMAIN data : data[f] = NaN

\* The row an update makes of a stored row.
UpdateRow(row, data) ==
    [f \in DOMAIN row |->
        IF f \in DOMAIN data /\ data[f] # Undefined THEN data[f] ELSE row[f]]

\* The row a create makes.
CreateRow(fields, data) ==
    [f \in fields |->
        IF f \in DOMAIN data /\ data[f] # Undefined THEN data[f] ELSE Null]

\* The outcome of a store call: the table afterwards, and either ok or the
\* message of the error thrown.
Done(table) == [ok |-> TRUE, error |-> "", table |-> table]
Throws(message, table) == [ok |-> FALSE, error |-> message, table |-> table]

\* model.upsert({where, update, create}).  Whether a NaN in a Float column
\* is refused by the client or written as it is depends on the client
\* version: nanAccepted is that choice.
PrismaUpsert(table, where, update, create, fields, required, reject, nanAccepted) ==
    IF reject THEN Throws("StoreError", table)
    ELSE IF \/ WhereInvalid(where)
            \/ CreateInvalid(create, required)
            \/ DataInvalid(update, required)
            \/ (HasNaN(create) \/ HasNaN(update)) /\ ~nanAccepted
    THEN Throws("ValidationError", table)
    ELSE LET existing == {r \in table : Matches(r, where)}
         IN  IF existing = {}
             THEN Done(table \cup {CreateRow(fields, create)})
             ELSE Done((table \ existing)
                        \cup {UpdateRow(r, update) : r \in existing})

\* model.findMany({where}): the matching rows.
PrismaFindMany(table, where) == {r \in table : Matches(r, where)}

\* An updateMany that writes one of the matching rows only.
PrismaUpdateOne(table, where, data, required, reject) ==
    IF reject THEN Throws("StoreError", table) @@ [count |-> 0]
    ELSE IF DataInvalid(data, required)
    THEN Throws("ValidationError", table) @@ [count |-> 0]
    ELSE LET matching == {r \in table : Matches(r, where)}
             first == IF matching = {} THEN {}
                      ELSE {CHOOSE r \in matching : TRUE}
         IN  Done({IF r \in first THEN UpdateRow(r, data) ELSE r :
                    r \in table})
             @@ [count |-> Cardinality(matching)]

\* model.updateMany({where, data}): one statement over all matching rows.
PrismaUpdateMany(table, where, data, required, reject) ==
    IF reject THEN Throws("StoreError", table) @@ [count |-> 0]
    ELSE IF DataInvalid(data, required)
    THEN Throws("ValidationError", table) @@ [count |-> 0]
    ELSE Done({IF Matches(r, where) THEN UpdateRow(r, data) ELSE r :
                r \in table})
         @@ [count |-> Cardinality({r \in table : Matches(r, where)})]

\* A deleteMany whose filter is lte.
PrismaDeleteManyStartTimeLte(table, value, reject) ==
    IF reject THEN Throws("StoreError", table) @@ [count |-> 0]
    ELSE LET old == {r \in table : ~DateLT(value, r.startTime)}
         IN  Done(table \ old) @@ [count |-> Cardinality(old)]

\* projection.deleteMany({where: {startTime: {lt: value}}}).
PrismaDeleteManyStartTimeLt(table, value, reject) ==
    IF reject THEN Throws("StoreError", table) @@ [count |-> 0]
    ELSE LET old == {r \in table : DateLT(r.startTime, value)}
         IN  Done(table \ old) @@ [count |-> Cardinality(old)]

(***************************************************************************)
(* The per-record handlers of the three batch scripts: the async callback  *)
(* given to map(), from its record to the marker it resolves to.  Each     *)
(* yields the table afterwards and the marker.                             *)
(***************************************************************************)
\* `thrown` is the message of the error the catch block saw, "" if none.
Handled(table, marker, thrown) ==
    [table |-> table, marker |-> marker, thrown |-> thrown]

\* storePlayers: the update and create arguments.
PlayerUpdate(player) ==
    [position |-> player.position, team |-> player.team,
     playerName |-> player.playerName, teamID |-> player.teamID]
PlayerCreate(player) == [playerID |-> player.playerID] @@ PlayerUpdate(player)

\* storePlayers: one record.
HandlePlayer(table, player, reject) ==
    LET r == PrismaUpsert(table, [playerID |-> player.playerID],
                          PlayerUpdate(player), PlayerCreate(player),
                          NbaPlayerFields, NbaPlayerRequired, reject, FALSE)
    IN  IF r.ok
        THEN Handled(r.table, [success |-> TRUE, id |-> player.playerID], "")
        ELSE Handled(r.table, [success |-> FALSE, error |-> r.error,
                               player |-> player.playerName], r.error)

\* storeGameStats: gameStatData.
GameStatData(gameId, playerId, gameStat) ==
    [gameId |-> gameId,
     playerId |-> playerId,
     playerName |-> gameStat.longName,
     team |-> gameStat.team,
     teamAbbreviation |-> gameStat.teamAbv,
     teamId |-> gameStat.teamID,
     gameDate |-> NewDateOf(gameStat.game_date),
     opponent |-> gameStat.opponent,
     isHome |-> gameStat.is_home,
     points |-> parseFloat(gameStat.pts),
     rebounds |-> parseFloat(gameStat.reb),
     offensiveRebounds |-> parseFloat(gameStat.OffReb),
     defensiveRebounds |-> parseFloat(gameStat.DefReb),
     assists |-> parseFloat(gameStat.ast),
     steals |-> parseFloat(gameStat.stl),
     blocks |-> parseFloat(gameStat.blk),
     turnovers |-> parseFloat(gameStat.TOV),
     personalFouls |-> parseFloat(gameStat.PF),
     technicalFouls |-> parseFloat(gameStat.tech),
     plusMinus |-> gameStat.plusMinus,
     minutesPlayed |-> gameStat.mins,
     fieldGoalsMade |-> parseFloat(gameStat.fgm),
     fieldGoalsAttempted |-> parseFloat(gameStat.fga),
     fieldGoalPercentage |-> gameStat.fgp,
     threePointersMade |-> parseFloat(gameStat.tptfgm),
     threePointersAttempted |-> parseFloat(gameStat.tptfga),
     threePointPercentage |-> gameStat.tptfgp,
     freeThrowsMade |-> parseFloat(gameStat.ftm),
     freeThrowsAttempted |-> parseFloat(gameStat.fta),
     freeThrowPercentage |-> gameStat.ftp,
     fantasyPoints |-> gameStat.fantasyPoints]

\* `${gameId}_${playerId}`
JoinedId(gameId, playerId) == Str(<<gameId, "_", playerId>>)

\* storeGameStats: one entry [gameId, gameStat] of games.
HandleGameStat(table, gameId, playerId, gameStat, reject, nanAccepted) ==
    LET gameStatData == GameStatData(gameId, playerId, gameStat)
        r == PrismaUpsert(table, [gameId |-> gameId, playerId |-> playerId],
                          gameStatData,
                          gameStatData @@ [id |-> JoinedId(gameId, playerId)],
                          NbaGameStatsFields, NbaGameStatsRequired, reject,
                          nanAccepted)
    IN  IF r.ok
        THEN Handled(r.table, [success |-> TRUE, gameId |-> gameId], "")
        ELSE Handled(r.table, [success |-> FALSE, error |-> r.error,
                               gameId |-> gameId], r.error)

\* An update argument that also clears the odds snapshot.
ProjectionUpdateClearingOdds(projection, parsedStartTime) ==
    [playerName |-> projection.playerName,
     team |-> projection.team,
     position |-> projection.position,
     statType |-> projection.statType,
     lineScore |-> projection.lineScore,
     average |-> projection.average,
     maxValue |-> projection.maxValue,
     gameId |-> projection.gameId,
     startTime |-> parsedStartTime,
     status |-> projection.status,
     opponent |-> projection.description,
     imageUrl |-> projection.imageUrl,
     oddsType |-> projection.oddsType,
     homeTeam |-> Null,
     oddsLastUpdated |-> Null]

\* storeProjections: the update argument.
ProjectionUpdate(projection, parsedStartTime) ==
    [playerName |-> projection.playerName,
     team |-> projection.team,
     position |-> projection.position,
     statType |-> projection.statType,
     lineScore |-> projection.lineScore,
     average |-> projection.average,
     maxValue |-> projection.maxValue,
     gameId |-> projection.gameId,
     startTime |-> parsedStartTime,
     status |-> projection.status,
     opponent |-> projection.description,
     imageUrl |-> projection.imageUrl,
     oddsType |-> projection.oddsType]
ProjectionCreate(projection, parsedStartTime) ==
    [projectionId |-> projection.projectionId]
        @@ ProjectionUpdate(projection, parsedStartTime)

\* The records of a batch that get the debug output: indexOf(...) < 3.
DebugCount == 3

\* storeProjections: the debug block of the first records.  split() of an
\* undefined or null startTime and toISOString() of an invalid Date throw.
DebugThrows(index, rawStartTime, parsedStartTime) ==
    IF index >= DebugCount THEN ""
    ELSE IF rawStartTime \in {Undefined, Null} THEN "TypeError"
    ELSE IF parsedStartTime = InvalidDate THEN "RangeError"
    ELSE ""

\* storeProjections: the record at `index` (0-based) of a batch whose
\* callbacks ran at clock reading t.
HandleProjection(table, projection, index, t, reject) ==
    LET rawStartTime == projection.startTime
        parsedStartTime == parseISODatePreservingTimezone(rawStartTime, t)
        thrown == DebugThrows(index, rawStartTime, parsedStartTime)
        r == IF thrown # "" THEN Throws(thrown, table)
             ELSE PrismaUpsert(table,
                               [projectionId |-> projection.projectionId],
                               ProjectionUpdate(projection, parsedStartTime),
                               ProjectionCreate(projection, parsedStartTime),
                               ProjectionFields, ProjectionRequired, reject,
                               FALSE)
    IN  IF r.ok
        THEN Handled(r.table,
                     [success |-> TRUE, id |-> projection.projectionId], "")
        ELSE Handled(r.table,
                     [success |-> FALSE, error |-> r.error,
                      projection |-> projection.projectionId], r.error)

(***************************************************************************)
(* updateProjectionsWithOdds and deleteOldProjections.                     *)
(***************************************************************************)
\* The data argument of updateMany, built at clock reading t.
\* A patch without the `|| null` fallbacks.
OddsPatchNoFallback(oddsData, t) ==
    [homeTeam |-> oddsData.homeTeam,
     awayTeam |-> oddsData.awayTeam,
     homeSpread |-> parseFloat(oddsData.homeSpread),
     awaySpread |-> parseFloat(oddsData.awaySpread),
     totalOver |-> parseFloat(oddsData.totalOver),
     totalUnder |-> parseFloat(oddsData.totalUnder),
     homeMoneyline |-> oddsData.homeMoneyline,
     awayMoneyline |-> oddsData.awayMoneyline,
     oddsProvider |-> oddsData.oddsProvider,
     oddsLastUpdated |->
        IF Truthy(oddsData.lastUpdated)
        THEN MakeDate(0, oddsData.lastUpdated.num * msPerSecond)
        ELSE NewDate(t)]

OddsPatch(oddsData, t) ==
    [homeTeam |-> oddsData.homeTeam,
     awayTeam |-> oddsData.awayTeam,
     homeSpread |-> Or(parseFloat(oddsData.homeSpread), Null),
     awaySpread |-> Or(parseFloat(oddsData.awaySpread), Null),
     totalOver |-> Or(parseFloat(oddsData.totalOver), Null),
     totalUnder |-> Or(parseFloat(oddsData.totalUnder), Null),
     homeMoneyline |-> oddsData.homeMoneyline,
     awayMoneyline |-> oddsData.awayMoneyline,
     oddsProvider |-> oddsData.oddsProvider,
     oddsLastUpdated |->
        IF Truthy(oddsData.lastUpdated)
        THEN MakeDate(0, oddsData.lastUpdated.num * msPerSecond)
        ELSE NewDate(t)]

\* The bulk write of updateProjectionsWithOdds.
UpdateOdds(table, gameId, oddsData, t, reject) ==
    PrismaUpdateMany(table, [gameId |-> gameId], OddsPatch(oddsData, t),
                     ProjectionRequired, reject)

\* The bulk delete of deleteOldProjections, currentTime captured before.
DeleteOld(table, currentTime, reject) ==
    PrismaDeleteManyStartTimeLt(table, currentTime, reject)

(***************************************************************************)
(* Bounds and the inputs drawn from them.                                  *)
(***************************************************************************)
\* The clock stops at MaxNow seconds.
MaxNow == 1
\* The records of one input file.
MaxBatch == 2

Scripts == {"storePlayers", "storeGameStats", "storeProjections"}

PlayerIds == {Str("pl1"), Str("pl2")}

\* The records of a players file.
PlayerInputs ==
    [playerID : PlayerIds,
     position : {Str("G"), Undefined},
     team : {Str("LAL"), Str("BOS")},
     playerName : {Str("Ann")},
     teamID : {Str("14")}]

StatGameIds == {Str("gm1"), Str("gm2")}

\* The game stat lines of a game stats file.
GameStatInputs ==
    [longName : {Str("Ann")}, team : {Str("LAL")}, teamAbv : {Str("LAL")},
     teamID : {Str("14")},
     game_date : {OtherString(MakeDate(1, 0))},
     opponent : {Str("BOS")}, is_home : {Bool(TRUE)},
     pts : {NumStr(10), Str("n/a")},
     reb : {NumStr(5)},
     OffReb : {NumStr(1)}, DefReb : {NumStr(4)}, ast : {NumStr(3)},
     stl : {NumStr(0)}, blk : {NumStr(0)}, TOV : {NumStr(2)},
     PF : {NumStr(1)}, tech : {NumStr(0)},
     plusMinus : {Str("+4")}, mins : {Str("31")},
     fgm : {NumStr(4)}, fga : {NumStr(9)}, fgp : {Str("44.4")},
     tptfgm : {NumStr(1)}, tptfga : {NumStr(3)}, tptfgp : {Str("33.3")},
     ftm : {NumStr(1)}, fta : {NumStr(2)}, ftp : {Str("50.0")},
     fantasyPoints : {Str("20.5")}]

ProjectionIds == {Str("p1"), Str("p2")}
GameIds == {Str("g1"), Str("g2")}

\* "1969-12-31T19:00:01-05:00", one second after the epoch.
Timestamp1 ==
    [year |-> <<1, 9, 6, 9>>, month |-> <<1, 2>>, day |-> <<3, 1>>,
     hour |-> <<1, 9>>, minute |-> <<0, 0>>, second |-> <<0, 1>>,
     sign |-> "-", tzh |-> <<0, 5>>, tzm |-> <<0, 0>>]

\* The records of a projections file.
ProjectionInputs ==
    [projectionId : ProjectionIds,
     playerName : {Str("Ann")}, team : {Str("LAL")}, position : {Str("G")},
     statType : {Str("Points")}, lineScore : {Num(25)},
     average : {Num(24), Undefined},
     maxValue : {Undefined},
     gameId : GameIds,
     startTime : {Timestamp1, EmptyString, Undefined},
     status : {Str("pre_game")},
     description : {Str("BOS")},
     imageUrl : {Undefined},
     oddsType : {Str("standard")}]

\* The records of the projections files stored beside the enrichment.
OddsProjectionInputs ==
    {p \in ProjectionInputs :
        p.average = Num(24) /\ p.startTime \in {Timestamp1, EmptyString}}

\* A batch long enough to have records after the first DebugCount ones.
MaxLongBatch == 4

\* The records of the long projections files: one projection, with its
\* startTime or without.
PositionInputs ==
    {p \in ProjectionInputs :
        /\ p.projectionId = Str("p1")
        /\ p.gameId = Str("g1")
        /\ p.average = Num(24)
        /\ p.startTime \in {Timestamp1, Undefined}}

\* The odds payloads.
OddsInputs ==
    [homeTeam : {Str("BOS")}, awayTeam : {Str("LAL")},
     homeSpread : {Num(-3), Num(0), Str("n/a"), Undefined},
     awaySpread : {NumStr(3)},
     totalOver : {Num(220)}, totalUnder : {Undefined},
     homeMoneyline : {Str("-150")}, awayMoneyline : {Str("+130")},
     oddsProvider : {Str("book")},
     lastUpdated : {Num(1), Undefined}]

(***************************************************************************)
(* The state machine.  A behaviour follows the store through successive    *)
(* invocations of the scripts.  The three batch scripts write three        *)
(* different tables, and a behaviour invokes one of them (`script`), any   *)
(* number of times.  Invocations do not overlap: a script starts when the  *)
(* one before has ended, and what that one printed is gone by then.        *)
(* The records of an input file are drawn when their handler runs: a       *)
(* handler reads its own record only.  The handlers of one batch are in    *)
(* flight together and settle in any order.                                *)
(***************************************************************************)
NoFile == [length |-> 0, startedAt |-> 0, playerId |-> Undefined]
NoTally == [total |-> 0, successCount |-> 0, errors |-> <<>>]
NoCall == [record |-> Undefined, success |-> FALSE]
NoResult == [success |-> FALSE, pending |-> TRUE]
EnrichIdle == [pc |-> "idle", gameId |-> Undefined, oddsData |-> Undefined,
               found |-> 0]
\* updateProjectionsWithOdds has returned; history: what it was given.
Returned(gameId, oddsData) == [pc |-> "returned", gameId |-> gameId,
                               oddsData |-> oddsData, found |-> 0]
DelIdle == [pc |-> "idle", currentTime |-> NewDate(0)]
\* No process has ended since the last one started.
NoExit == [code |-> -1, cause |-> ""]
\* process.exit(code), or the end of the event loop (code 0).  History: the
\* cause is "input" for an input error, "store" for a store call that threw
\* outside a per-record handler, "" otherwise.
ExitWith(code, cause) == [code |-> code, cause |-> cause]
\* process.exit(result.success ? 0 : 1), and process.exit(1) in a catch block.
ExitOf(result) ==
    IF result.success THEN ExitWith(0, "")
    ELSE ExitWith(1, IF "error" \in DOMAIN result THEN "store" ELSE "")

\* No invocation is in progress.
Quiet == pc = "idle" /\ enrich.pc # "update" /\ del.pc # "deleting"

Init ==
    /\ now = 0
    /\ isoString = Undefined
    /\ parsed = Pending
    /\ players = {}
    /\ gameStats = {}
    /\ projections = {}
    /\ script \in Scripts
    /\ pc = "idle"
    /\ file = NoFile
    /\ results = <<>>
    /\ tally = NoTally
    /\ caught = <<>>
    /\ last = NoCall
    /\ enrich = EnrichIdle
    /\ enrichResult = NoResult
    /\ del = DelIdle
    /\ delResult = NoResult
    /\ exit = NoExit

\* Time passes.  Only the projections scripts read the clock.
Tick ==
    /\ script = "storeProjections"
    /\ now < MaxNow
    /\ now' = now + 1
    /\ UNCHANGED <<dateVars, tables, batchVars, enrichVars, delVars, exit>>

\* A batch script starts: it reads its file of at most maxLength records and
\* maps the handler over the records, which are then in flight together.
StartBatch(maxLength) ==
    /\ pc = "idle"
    /\ \E length \in 0..maxLength :
         \E playerId \in (IF script = "storeGameStats" THEN PlayerIds
                          ELSE {Undefined}) :
            /\ file' = [length |-> length, startedAt |-> now,
                        playerId |-> playerId]
            /\ results' = [i \in 1..length |-> Pending]
            /\ caught' = [i \in 1..length |-> Pending]
    /\ pc' = "running"
    /\ tally' = NoTally
    /\ exit' = NoExit
    /\ UNCHANGED <<now, dateVars, tables, script, last>>

\* A batch script starts while no other invocation is in progress.
ReadFile ==
    /\ Quiet
    /\ StartBatch(MaxBatch)
    /\ enrich' = EnrichIdle
    /\ enrichResult' = NoResult
    /\ del' = DelIdle
    /\ delResult' = NoResult

\* What every handler step does to the script's own state.
\* `name` is what the script's failure marker is to carry for the record.
Settle(i, record, name, h) ==
    /\ results' = [results EXCEPT ![i] = h.marker]
    /\ caught' = [caught EXCEPT ![i] = [name |-> name, thrown |-> h.thrown,
                                        enriching |-> enrich.pc = "update"]]
    /\ last' = IF h.thrown = "StoreError" THEN last
               ELSE [record |-> record, success |-> h.thrown = ""]
    /\ UNCHANGED <<now, dateVars, script, pc, file, tally, enrichVars, delVars,
                   exit>>

\* storePlayers: the handler of one record settles.
StorePlayer ==
    /\ script = "storePlayers"
    /\ pc = "running"
    /\ \E i \in DOMAIN results, player \in PlayerInputs, reject \in BOOLEAN :
         /\ results[i] = Pending
         /\ LET h == HandlePlayer(players, player, reject)
            IN  /\ players' = h.table
                /\ Settle(i, player, player.playerName, h)
    /\ UNCHANGED <<gameStats, projections>>

\* storeGameStats: the handler of one entry of games settles.  The entries
\* of one file have different game ids (they are the keys of an object).
StoreGameStat ==
    /\ script = "storeGameStats"
    /\ pc = "running"
    /\ \E i \in DOMAIN results, gameId \in StatGameIds,
          gameStat \in GameStatInputs, reject \in BOOLEAN,
          nanAccepted \in BOOLEAN :
         /\ results[i] = Pending
         /\ \A j \in DOMAIN results :
                results[j] # Pending => results[j].gameId # gameId
         /\ LET h == HandleGameStat(gameStats, gameId, file.playerId,
                                    gameStat, reject, nanAccepted)
            IN  /\ gameStats' = h.table
                /\ Settle(i, [gameId |-> gameId, playerId |-> file.playerId,
                              gameStat |-> gameStat], gameId, h)
    /\ UNCHANGED <<players, projections>>

\* storeProjections: the handler of one record settles.
StoreProjection(inputs) ==
    /\ script = "storeProjections"
    /\ pc = "running"
    /\ \E i \in DOMAIN results, projection \in inputs,
          reject \in BOOLEAN :
         /\ results[i] = Pending
         /\ LET h == HandleProjection(projections, projection, i - 1,
                                      file.startedAt, reject)
            IN  /\ projections' = h.table
                /\ Settle(i, projection, projection.projectionId, h)
    /\ UNCHANGED <<players, gameStats>>

\* results.filter(r => r.success).length and results.filter(r => !r.success)
IsSuccess(marker) == marker.success
IsError(marker) == ~marker.success
\* A tally that counts every marker as a success.
CountTallyEveryMarker(rs) ==
    [total |-> Len(rs),
     successCount |-> Len(rs),
     errors |-> SelectSeq(rs, IsError)]
CountTally(rs) ==
    [total |-> Len(rs),
     successCount |-> Len(SelectSeq(rs, IsSuccess)),
     errors |-> SelectSeq(rs, IsError)]

\* A tally that does not await Promise.all: it counts the markers there are.
IsSettled(marker) == marker # Pending
TallyWithoutAwait ==
    /\ pc = "running"
    /\ tally' = CountTally(SelectSeq(results, IsSettled))
    /\ pc' = "tallied"
    /\ UNCHANGED <<now, dateVars, tables, script, file, results, caught, last,
                   enrichVars, delVars, exit>>

\* Promise.all has resolved: the script counts and logs.
Tally ==
    /\ pc = "running"
    /\ \A i \in DOMAIN results : results[i] # Pending
    /\ tally' = CountTally(results)
    /\ pc' = "tallied"
    /\ UNCHANGED <<now, dateVars, tables, script, file, results, caught, last,
                   enrichVars, delVars, exit>>

\* The script disconnects and its process ends.
Exit ==
    /\ pc = "tallied"
    /\ pc' = "idle"
    /\ file' = NoFile
    /\ results' = <<>>
    /\ caught' = <<>>
    /\ tally' = NoTally
    /\ exit' = ExitWith(0, "")
    /\ UNCHANGED <<now, dateVars, tables, script, last, enrichVars, delVars>>

\* An existence check without the early return on an empty lookup.
EnrichCheckNoEarlyReturn ==
    /\ Quiet
    /\ \E gameId \in GameIds, oddsData \in OddsInputs, reject \in BOOLEAN :
         LET found == PrismaFindMany(projections, [gameId |-> gameId])
         IN  IF reject
             THEN /\ enrich' = Returned(gameId, oddsData)
                  /\ enrichResult' = [success |-> FALSE, error |-> "StoreError"]
                  /\ exit' = ExitWith(1, "store")
             ELSE /\ enrich' = [pc |-> "update", gameId |-> gameId,
                                oddsData |-> oddsData,
                                found |-> Cardinality(found)]
                  /\ enrichResult' = NoResult
                  /\ exit' = NoExit
    /\ del' = DelIdle
    /\ delResult' = NoResult
    /\ UNCHANGED <<now, dateVars, tables, batchVars>>

\* updateProjectionsWithOdds(gameId, oddsData) up to the existence check,
\* called from the command line: when it returns, the process exits.
FindProjections(oddsInputs) ==
    /\ enrich.pc # "update"
    /\ \E gameId \in GameIds, oddsData \in oddsInputs, reject \in BOOLEAN :
         LET found == PrismaFindMany(projections, [gameId |-> gameId])
         IN  IF reject
             THEN /\ enrich' = Returned(gameId, oddsData)
                  /\ enrichResult' = [success |-> FALSE, error |-> "StoreError"]
                  /\ exit' = ExitOf(enrichResult')
             ELSE IF Cardinality(found) = 0
             THEN /\ enrich' = Returned(gameId, oddsData)
                  /\ enrichResult' =
                        [success |-> FALSE,
                         message |-> "No projections found for this game ID"]
                  /\ exit' = ExitOf(enrichResult')
             ELSE /\ enrich' = [pc |-> "update", gameId |-> gameId,
                                oddsData |-> oddsData,
                                found |-> Cardinality(found)]
                  /\ enrichResult' = NoResult
                  /\ exit' = NoExit
    /\ UNCHANGED <<now, dateVars, tables, batchVars>>

\* The enrichment starts while no other invocation is in progress.
EnrichCheck ==
    /\ Quiet
    /\ FindProjections(OddsInputs)
    /\ del' = DelIdle
    /\ delResult' = NoResult

\* updateProjectionsWithOdds: the bulk update and the return.
EnrichUpdate ==
    /\ enrich.pc = "update"
    /\ \E reject \in BOOLEAN :
         LET r == UpdateOdds(projections, enrich.gameId, enrich.oddsData, now,
                             reject)
         IN  /\ projections' = r.table
             /\ enrichResult' =
                    IF r.ok THEN [success |-> TRUE, count |-> r.count]
                    ELSE [success |-> FALSE, error |-> r.error]
             /\ last' = IF r.ok THEN NoCall ELSE last
    /\ exit' = ExitOf(enrichResult')
    /\ enrich' = Returned(enrich.gameId, enrich.oddsData)
    /\ UNCHANGED <<now, dateVars, players, gameStats, script, pc, file,
                   results, tally, caught, delVars>>

\* deleteOldProjections captures the current time.
CaptureTime ==
    /\ del.pc # "deleting"
    /\ del' = [pc |-> "deleting", currentTime |-> NewDate(now)]
    /\ delResult' = NoResult
    /\ exit' = NoExit
    /\ UNCHANGED <<now, dateVars, tables, batchVars>>

\* deleteOldProjections starts while no other invocation is in progress.
DeleteStart ==
    /\ Quiet
    /\ CaptureTime
    /\ enrich' = EnrichIdle
    /\ enrichResult' = NoResult

\* deleteOldProjections: the bulk delete and the JSON it prints.
DeleteMany ==
    /\ del.pc = "deleting"
    /\ \E reject \in BOOLEAN :
         LET r == DeleteOld(projections, del.currentTime, reject)
         IN  /\ projections' = r.table
             /\ delResult' =
                    IF r.ok THEN [success |-> TRUE, deletedCount |-> r.count]
                    ELSE [success |-> FALSE, error |-> r.error]
             /\ last' = IF r.ok THEN NoCall ELSE last
    /\ exit' = ExitOf(delResult')
    /\ del' = [del EXCEPT !.pc = "returned"]
    /\ UNCHANGED <<now, dateVars, players, gameStats, script, pc, file,
                   results, tally, caught, enrichVars>>

\* A script is started without its argument or with malformed JSON: it
\* exits before any store access.
InputError ==
    /\ Quiet
    /\ exit' = ExitWith(1, "input")
    /\ enrich' = EnrichIdle
    /\ enrichResult' = NoResult
    /\ del' = DelIdle
    /\ delResult' = NoResult
    /\ UNCHANGED <<now, dateVars, tables, batchVars>>

\* The three batch scripts.
Next ==
    \/ Tick
    \/ InputError
    \/ ReadFile
    \/ StorePlayer
    \/ StoreGameStat
    \/ StoreProjection(ProjectionInputs)
    \/ Tally
    \/ Exit

Spec == Init /\ [][Next]_vars

\* storeProjections with the odds enrichment and the retention delete.
OddsInit == Init /\ script = "storeProjections"

OddsNext ==
    \/ Tick
    \/ InputError
    \/ ReadFile
    \/ StoreProjection(OddsProjectionInputs)
    \/ Tally
    \/ Exit
    \/ EnrichCheck
    \/ EnrichUpdate
    \/ DeleteStart
    \/ DeleteMany

SpecOdds == OddsInit /\ [][OddsNext]_vars

\* The odds payloads of the enrichments that run beside other invocations.
RaceOddsInputs ==
    {o \in OddsInputs : o.homeSpread = Num(-3) /\ o.lastUpdated = Undefined}

\* The files stored beside other invocations: at most MaxRaceBatch records,
\* of one projection.
MaxRaceBatch == 1
RaceProjectionInputs ==
    {p \in OddsProjectionInputs : p.projectionId = Str("p1")}

\* storeProjections, the enrichment and the retention delete as separate
\* processes on the one store: each starts whenever it is not itself
\* running, and their store calls interleave.
ReadFileConcurrently ==
    /\ StartBatch(MaxRaceBatch)
    /\ UNCHANGED <<enrichVars, delVars>>

EnrichCheckConcurrently ==
    /\ FindProjections(RaceOddsInputs)
    /\ UNCHANGED delVars

DeleteStartConcurrently ==
    /\ CaptureTime
    /\ UNCHANGED enrichVars

RaceNext ==
    \/ Tick
    \/ ReadFileConcurrently
    \/ StoreProjection(RaceProjectionInputs)
    \/ Tally
    \/ Exit
    \/ EnrichCheckConcurrently
    \/ EnrichUpdate
    \/ DeleteStartConcurrently
    \/ DeleteMany

SpecRace == OddsInit /\ [][RaceNext]_vars

\* storeProjections on files of up to MaxLongBatch records.
ReadLongFile ==
    /\ Quiet
    /\ StartBatch(MaxLongBatch)
    /\ UNCHANGED <<enrichVars, delVars>>

PositionNext ==
    \/ ReadLongFile
    \/ StoreProjection(PositionInputs)
    \/ Tally
    \/ Exit

SpecPosition == OddsInit /\ [][PositionNext]_vars

(***************************************************************************)
(* The date parser on its own: a timestamp is drawn and parsed.            *)
(***************************************************************************)
Digits2(n) == <<n \div 10, n % 10>>
Digits4(n) == <<n \div 1000, (n \div 100) % 10, (n \div 10) % 10, n % 10>>

TestYears == {50, 1970, 1999, 2023, 2024}
TestMonths == {1, 2, 3, 12}
TestDays == {1, 15, 28, 29, 31}
TestHours == {0, 19, 23}
TestMinutes == {0, 30, 59}
TestSeconds == {0, 59}
TestTzHours == {0, 5, 6, 14}
TestTzMinutes == {0, 30, 45}

\* The numbers a matched string spells.
Components(s) ==
    [year |-> parseInt10(s.year), month |-> parseInt10(s.month),
     day |-> parseInt10(s.day), hour |-> parseInt10(s.hour),
     minute |-> parseInt10(s.minute), second |-> parseInt10(s.second)]

\* The components name a date and a time of day that exist.
ValidComponents(s) ==
    LET c == Components(s)
    IN  /\ c.month \in 1..12
        /\ c.day \in 1..DaysInMonth(c.year, c.month - 1)
        /\ c.hour \in 0..23
        /\ c.minute \in 0..59
        /\ c.second \in 0..59
        /\ parseInt10(s.tzh) \in 0..23
        /\ parseInt10(s.tzm) \in 0..59

\* The timestamp strings YYYY-MM-DDTHH:MM:SS+/-HH:MM under test.
TestTimestamps ==
    { s \in [year : {Digits4(y) : y \in TestYears},
             month : {Digits2(m) : m \in TestMonths},
             day : {Digits2(d) : d \in TestDays},
             hour : {Digits2(h) : h \in TestHours},
             minute : {Digits2(m) : m \in TestMinutes},
             second : {Digits2(x) : x \in TestSeconds},
             sign : {"+", "-"},
             tzh : {Digits2(h) : h \in TestTzHours},
             tzm : {Digits2(m) : m \in TestTzMinutes}] :
        ValidComponents(s) }

DateInit ==
    /\ Init
    /\ script = "storeProjections"

\* A caller hands a timestamp to the parser.
DrawTimestamp ==
    /\ isoString = Undefined
    /\ isoString' \in TestTimestamps
    /\ UNCHANGED <<now, parsed, tables, batchVars, enrichVars, delVars, exit>>

\* The parser returns.
Parse ==
    /\ isoString # Undefined
    /\ parsed = Pending
    /\ parsed' = parseISODatePreservingTimezone(isoString, now)
    /\ UNCHANGED <<now, isoString, tables, batchVars, enrichVars, delVars, exit>>

DateNext == DrawTimestamp \/ Parse

SpecDate == DateInit /\ [][DateNext]_vars

\* The date and time of day a Date shows at `offset` minutes east of UTC.
WallClock(d, offset) ==
    LET local == setUTCMinutes(d, getUTCMinutes(d) + offset)
    IN  [year |-> getUTCFullYear(local), month |-> getUTCMonth(local) + 1,
         day |-> getUTCDate(local), hour |-> getUTCHours(local),
         minute |-> getUTCMinutes(local), second |-> getUTCSeconds(local)]

\* The parser's result shows the timestamp's own date and time at the
\* timestamp's own offset.
RoundTrips(s, d) == WallClock(d, tzOffsetMinutes(s)) = Components(s)

\* C1: for every timestamp YYYY-MM-DDTHH:MM:SS+/-HH:MM with valid
\* components the parser returns the instant whose date and time at the
\* stated offset are the ones written in the string (the components read as
\* UTC, minus the offset).
C1_RoundTrip ==
    (parsed # Pending /\ IsMatch(isoString) /\ ValidComponents(isoString))
        => /\ RoundTrips(isoString, parsed)
           /\ parsed = LET c == Components(isoString)
                           utc == DateUTCFullYear(c.year, c.month - 1, c.day,
                                                  c.hour, c.minute, c.second)
                       IN  MakeDate(utc.day,
                                    utc.ms - tzOffsetMinutes(isoString)
                                                * msPerMinute)

\* The same, for the years the two-digit-year rule of Date.UTC leaves alone.
RoundTripFromYear100 ==
    (parsed # Pending /\ IsMatch(isoString) /\ ValidComponents(isoString)
        /\ Components(isoString).year >= 100)
        => RoundTrips(isoString, parsed)

\* The timestamp of the specification's example, 2024-01-15T19:30:00-06:00,
\* parsed to 2024-01-16T01:30:00Z.
ExampleParsed ==
    /\ Components(isoString) = [year |-> 2024, month |-> 1, day |-> 15,
                                hour |-> 19, minute |-> 30, second |-> 0]
    /\ isoString.sign = "-" /\ tzOffsetMinutes(isoString) = -360
    /\ parsed = DateUTCFullYear(2024, 0, 16, 1, 30, 0)

(***************************************************************************)
(* Properties of the batch scripts.                                        *)
(***************************************************************************)
\* The handler of index i settles in this step.
Settles(i) ==
    /\ pc = "running" /\ pc' = "running"
    /\ i \in DOMAIN results
    /\ results[i] = Pending
    /\ results'[i] # Pending

\* The handler of index i settles in this step, and not by a store failure:
\* last' is its call.
SettlesOn(i) == Settles(i) /\ caught'[i].thrown # "StoreError"

\* The natural key of an input record, as the where-clause of its upsert.
KeyOf(record) ==
    IF script = "storePlayers" THEN [playerID |-> record.playerID]
    ELSE IF script = "storeGameStats"
    THEN [gameId |-> record.gameId, playerId |-> record.playerId]
    ELSE [projectionId |-> record.projectionId]

\* The table the script writes, before and after the step.
Table == IF script = "storePlayers" THEN players
         ELSE IF script = "storeGameStats" THEN gameStats ELSE projections
TableAfter == IF script = "storePlayers" THEN players'
              ELSE IF script = "storeGameStats" THEN gameStats'
              ELSE projections'

NoTwoShareKey(table, keyFields) ==
    \A r1, r2 \in table : (\A k \in keyFields : r1[k] = r2[k]) => r1 = r2

NoDuplicateKeys ==
    /\ NoTwoShareKey(players, {"playerID"})
    /\ NoTwoShareKey(gameStats, {"gameId", "playerId"})
    /\ NoTwoShareKey(projections, {"projectionId"})

\* In this step a record is upserted that was upserted by the call before.
SameRecordAgain(i) ==
    /\ SettlesOn(i)
    /\ results'[i].success
    /\ last.success
    /\ last'.record = last.record

\* C2: for each of the three upserts, applying the same input record twice
\* leaves exactly one stored record with that key after each call, the
\* stored fields after the second call equal those after the first, and no
\* two stored records ever share a natural key.
C2_Idempotent ==
    /\ []NoDuplicateKeys
    /\ [][\A i \in 1..MaxBatch :
            /\ (SettlesOn(i) /\ results'[i].success)
                 => Cardinality({r \in TableAfter :
                                    Matches(r, KeyOf(last'.record))}) = 1
            /\ SameRecordAgain(i) => TableAfter = Table]_vars

\* The same, for the records whose startTime is given (neither absent nor
\* empty): every record of the players and game stats scripts, and the
\* projections that have a startTime.
HasStartTime(record) ==
    script = "storeProjections" => ~IsFalsy(record.startTime)

IdempotentWithStartTime ==
    [][\A i \in 1..MaxBatch :
        (SameRecordAgain(i) /\ HasStartTime(last.record))
            => TableAfter = Table]_vars

\* The fields of the record proper (for a game stat line, of gameStat) in
\* which two input records with the same key differ.
ChangedFields(r1, r2) ==
    IF script = "storeGameStats"
    THEN {f \in DOMAIN r1.gameStat : r1.gameStat[f] # r2.gameStat[f]}
    ELSE {f \in DOMAIN r1 : r1[f] # r2[f]}

\* The column an input field is stored in.
StatColumn ==
    [longName |-> "playerName", team |-> "team", teamAbv |-> "teamAbbreviation",
     teamID |-> "teamId", game_date |-> "gameDate", opponent |-> "opponent",
     is_home |-> "isHome", pts |-> "points", reb |-> "rebounds",
     OffReb |-> "offensiveRebounds", DefReb |-> "defensiveRebounds",
     ast |-> "assists", stl |-> "steals", blk |-> "blocks",
     TOV |-> "turnovers", PF |-> "personalFouls", tech |-> "technicalFouls",
     plusMinus |-> "plusMinus", mins |-> "minutesPlayed",
     fgm |-> "fieldGoalsMade", fga |-> "fieldGoalsAttempted",
     fgp |-> "fieldGoalPercentage", tptfgm |-> "threePointersMade",
     tptfga |-> "threePointersAttempted", tptfgp |-> "threePointPercentage",
     ftm |-> "freeThrowsMade", fta |-> "freeThrowsAttempted",
     ftp |-> "freeThrowPercentage", fantasyPoints |-> "fantasyPoints"]
ColumnOf(f) ==
    IF script = "storeGameStats" THEN StatColumn[f]
    ELSE IF f = "description" THEN "opponent" ELSE f

\* In this step an existing record is upserted with an input that differs
\* in exactly one field from the input upserted by the call before.
OneFieldChanged(i) ==
    /\ SettlesOn(i)
    /\ results'[i].success
    /\ last.success
    /\ KeyOf(last'.record) = KeyOf(last.record)
    /\ Cardinality(ChangedFields(last.record, last'.record)) = 1

\* The step changes, in the row of `key`, at most the columns `columns`,
\* and changes no other row.
ChangesOnly(key, columns) ==
    /\ {r \in TableAfter : ~Matches(r, key)} = {r \in Table : ~Matches(r, key)}
    /\ \A r \in Table : \A q \in TableAfter :
          (Matches(r, key) /\ Matches(q, key))
             => \A c \in DOMAIN r : c \notin columns => q[c] = r[c]
    /\ \E q \in TableAfter : Matches(q, key)

\* C3: upserting an existing record with one changed field changes only
\* that field's stored value; every other stored field and the natural key
\* are the same before and after the call.
C3_OnlyChangedField ==
    [][\A i \in 1..MaxBatch :
        OneFieldChanged(i)
            => ChangesOnly(KeyOf(last.record),
                           {ColumnOf(f) :
                              f \in ChangedFields(last.record, last'.record)})]_vars

\* The same, for the records whose startTime is given.
OnlyChangedFieldWithStartTime ==
    [][\A i \in 1..MaxBatch :
        (OneFieldChanged(i) /\ HasStartTime(last.record)
            /\ HasStartTime(last'.record))
            => ChangesOnly(KeyOf(last.record),
                           {ColumnOf(f) :
                              f \in ChangedFields(last.record, last'.record)})]_vars

\* What a failure marker names: the player, the game or the projection.
MarkerName(marker) ==
    IF "player" \in DOMAIN marker THEN marker.player
    ELSE IF "projection" \in DOMAIN marker THEN marker.projection
    ELSE marker.gameId

\* The where-clause of the record a success marker stands for.
MarkerKey(marker) ==
    IF script = "storePlayers" THEN [playerID |-> marker.id]
    ELSE IF script = "storeGameStats"
    THEN [gameId |-> marker.gameId, playerId |-> file.playerId]
    ELSE [projectionId |-> marker.id]

\* The handlers of the batch whose catch block ran.
Failed == {i \in DOMAIN caught : caught[i].thrown # ""}

IsThrown(c) == c.thrown # ""

\* The tally of a finished batch of N records of which K failed.
TallyMatchesBatch ==
    pc = "tallied" =>
        LET failures == SelectSeq(caught, IsThrown)
        IN  /\ DOMAIN results = 1..file.length
            /\ \A i \in DOMAIN results : results[i] # Pending
            /\ tally.total = file.length
            /\ tally.successCount = file.length - Cardinality(Failed)
            /\ Len(tally.errors) = Cardinality(Failed)
            /\ Len(failures) = Len(tally.errors)
            /\ \A j \in DOMAIN failures :
                  /\ MarkerName(tally.errors[j]) = failures[j].name
                  /\ tally.errors[j].error = failures[j].thrown
            /\ \A i \in DOMAIN results :
                  i \notin Failed
                     => /\ results[i].success
                        /\ \E r \in Table : Matches(r, MarkerKey(results[i]))

\* C4: with N input records of which K fail, a batch import still attempts
\* all N, the store receives no change from the failed ones, the N-K
\* successful records remain stored, and the run reports N-K successes and
\* K errors, each error naming its record.
C4_BatchTally ==
    /\ []TallyMatchesBatch
    /\ [][\A i \in 1..MaxBatch :
            Settles(i) =>
               IF caught'[i].thrown # ""
               THEN /\ TableAfter = Table
                    /\ ~results'[i].success
               ELSE \E r \in TableAfter : Matches(r, MarkerKey(results'[i]))]_vars
    /\ [][(pc = "running" /\ pc' # "running")
            => \A i \in DOMAIN results : results[i] # Pending]_vars

\* A batch of two has been tallied in which one record failed and the
\* other is stored.
BatchWithOneFailureTallied ==
    /\ pc = "tallied"
    /\ file.length = 2
    /\ Cardinality(Failed) = 1
    /\ tally.successCount = 1
    /\ Len(tally.errors) = 1
    /\ Table # {}

\* The optional fields of a projection an input record may leave out.
OptionalInputs == {"average", "maxValue", "description", "imageUrl", "oddsType"}

\* C8: after a successful projection upsert, an optional field that is
\* absent from the input (undefined) is stored as null, for a new record
\* and for an existing one alike.
C8_AbsentOptionalNull ==
    [][\A i \in 1..MaxBatch :
        (SettlesOn(i) /\ script = "storeProjections" /\ results'[i].success)
           => \A r \in projections' :
                 Matches(r, KeyOf(last'.record))
                    => \A f \in OptionalInputs :
                          last'.record[f] = Undefined
                             => r[ColumnOf(f)] = Null]_vars

\* The same for the records that were not stored before the call.
AbsentOptionalNullOnCreate ==
    [][\A i \in 1..MaxBatch :
        (SettlesOn(i) /\ script = "storeProjections" /\ results'[i].success
           /\ ~\E r \in projections : Matches(r, KeyOf(last'.record)))
           => \A r \in projections' :
                 Matches(r, KeyOf(last'.record))
                    => \A f \in OptionalInputs :
                          last'.record[f] = Undefined
                             => r[ColumnOf(f)] = Null]_vars

\* The numeric fields of a game stat line that parseFloat() is applied to.
CoercedInputs ==
    {"pts", "reb", "OffReb", "DefReb", "ast", "stl", "blk", "TOV", "PF",
     "tech", "fgm", "fga", "tptfgm", "tptfga", "ftm", "fta"}

\* C9: a game stat line with a numeric field that cannot be read as a
\* number is still upserted successfully: that field is stored as null and
\* the remaining fields are stored as given.
C9_MalformedNumericNull ==
    [][\A i \in 1..MaxBatch :
        (SettlesOn(i) /\ script = "storeGameStats"
           /\ \E f \in CoercedInputs : parseFloat(last'.record.gameStat[f]) = NaN)
           => /\ results'[i].success
              /\ \E r \in gameStats' :
                   /\ Matches(r, KeyOf(last'.record))
                   /\ \A f \in DOMAIN last'.record.gameStat :
                        r[StatColumn[f]] =
                           IF f \in CoercedInputs
                              /\ parseFloat(last'.record.gameStat[f]) = NaN
                           THEN Null
                           ELSE GameStatData(last'.record.gameId,
                                             last'.record.playerId,
                                             last'.record.gameStat)[StatColumn[f]]]_vars

(***************************************************************************)
(* Properties of the odds enrichment and of the retention delete.          *)
(***************************************************************************)
NoMatchResult ==
    [success |-> FALSE, message |-> "No projections found for this game ID"]

\* The stored projections of a game.
OfGame(table, gameId) == {r \in table : r.gameId = gameId}

\* The enrichment has returned for a game no stored projection references.
ReturnedForUnknownGame ==
    /\ enrich.pc = "returned"
    /\ OfGame(projections, enrich.gameId) = {}

\* C5: called with a gameId that no stored projection references,
\* updateProjectionsWithOdds returns a "no matching records" result without
\* throwing (a store that fails the lookup gives the error result instead),
\* and the call leaves the store unchanged.
C5_UnknownGameNoMatch ==
    /\ [](ReturnedForUnknownGame
            => \/ enrichResult = NoMatchResult
               \/ enrichResult = [success |-> FALSE, error |-> "StoreError"])
    /\ [][(enrich.pc # "update" /\ enrich'.pc = "returned")
            => /\ projections' = projections
               /\ OfGame(projections, enrich'.gameId) = {}
                    => enrichResult' \in
                          {NoMatchResult,
                           [success |-> FALSE, error |-> "StoreError"]}]_vars

\* The enrichment has answered "no match" while projections of another
\* game are stored.
NoMatchAnswered ==
    /\ ReturnedForUnknownGame
    /\ enrichResult = NoMatchResult
    /\ projections # {}

\* The step is the bulk update of the enrichment and its return.
UpdateReturns == enrich.pc = "update" /\ enrich'.pc = "returned"

\* The row r with the patch written over its odds columns.
Patched(r, patch) ==
    [f \in DOMAIN r |-> IF f \in DOMAIN patch THEN patch[f] ELSE r[f]]

\* C6: after updateProjectionsWithOdds returns, either every stored
\* projection with the given gameId carries the new odds values or none
\* does, the result then indicating failure; projections with a different
\* gameId are never modified by the call.
C6_AllOrNone ==
    [][UpdateReturns =>
        LET patch == OddsPatch(enrich.oddsData, now)
            matching == OfGame(projections, enrich.gameId)
        IN  /\ \/ /\ enrichResult'.success
                  /\ enrichResult'.count = Cardinality(matching)
                  /\ OfGame(projections', enrich.gameId)
                        = {Patched(r, patch) : r \in matching}
               \/ /\ ~enrichResult'.success
                  /\ OfGame(projections', enrich.gameId) = matching
            /\ projections' \ OfGame(projections', enrich.gameId)
                  = projections \ matching]_vars

\* The enrichment has updated the two stored projections of a game.
TwoUpdated ==
    /\ enrich.pc = "returned"
    /\ enrichResult.success
    /\ enrichResult.count = 2
    /\ \A r \in projections :
          r.gameId = enrich.gameId /\ r.homeTeam = enrich.oddsData.homeTeam

\* C7: deleteOldProjections captures the current instant once at its
\* start and deletes exactly the projections whose startTime is strictly
\* before that instant; a projection whose startTime equals or follows it
\* is kept, and the reported deleted count is the number removed.
C7_DeletesStrictlyOlder ==
    /\ [][(del.pc # "deleting" /\ del'.pc = "deleting")
            => del'.currentTime = NewDate(now)]_vars
    /\ [][(del.pc = "deleting" /\ del'.pc = "returned")
            => /\ del'.currentTime = del.currentTime
               /\ IF delResult'.success
                  THEN /\ projections' =
                            {r \in projections :
                                ~DateLT(r.startTime, del.currentTime)}
                       /\ delResult'.deletedCount =
                            Cardinality(projections \ projections')
                  ELSE projections' = projections]_vars

\* The delete has removed a projection and kept one whose startTime is the
\* captured instant, at a later clock reading or not.
DeletedOlderKeptEqual ==
    /\ del.pc = "returned"
    /\ delResult.success
    /\ delResult.deletedCount >= 1
    /\ \E r \in projections : r.startTime = del.currentTime

\* The numeric odds fields of a patch.
NumericOdds == {"homeSpread", "awaySpread", "totalOver", "totalUnder"}
PassedOdds == {"homeTeam", "awayTeam", "homeMoneyline", "awayMoneyline",
               "oddsProvider"}

\* A value that is absent or that parseFloat() does not read as a number.
NonNumeric(v) == parseFloat(v) = NaN

\* C10: in the odds patch, a numeric field whose value is absent or
\* non-numeric is stored as null; the patch is not rejected, and the rest
\* is applied.
C10_NonNumericOddsNull ==
    [][(UpdateReturns
          /\ \E f \in NumericOdds : NonNumeric(enrich.oddsData[f]))
        => /\ enrichResult'.success
              \/ enrichResult' = [success |-> FALSE, error |-> "StoreError"]
           /\ enrichResult'.success
                => \A r \in OfGame(projections', enrich.gameId) :
                      /\ \A f \in NumericOdds :
                            r[f] = IF NonNumeric(enrich.oddsData[f]) THEN Null
                                   ELSE OddsPatch(enrich.oddsData, now)[f]
                      /\ \A f \in PassedOdds : r[f] = enrich.oddsData[f]
                      /\ r.oddsLastUpdated
                            = OddsPatch(enrich.oddsData, now).oddsLastUpdated]_vars

\* A patch with a non-numeric homeSpread has been applied.
NonNumericSpreadApplied ==
    /\ enrich.pc = "returned"
    /\ enrichResult.success
    /\ enrich.oddsData.homeSpread = Str("n/a")
    /\ \E r \in projections :
          /\ r.gameId = enrich.gameId
          /\ r.homeSpread = Null
          /\ r.awaySpread = Num(3)
          /\ r.homeTeam = enrich.oddsData.homeTeam

(***************************************************************************)
(* Exit codes.                                                             *)
(***************************************************************************)
\* A process has ended with a non-zero exit code.
ExitedNonZero == exit.code = 1

\* C11: every script exits with code 0 unless an input-level error or a
\* top-level store failure occurred: a batch run in which some records
\* fail still reports its tally and exits 0, and an enrichment run whose
\* game identifier matches no projections does not exit non-zero.
C11_ExitZeroUnlessFatal ==
    /\ [](ExitedNonZero => exit.cause \in {"input", "store"})
    /\ []((ReturnedForUnknownGame /\ enrichResult = NoMatchResult)
            => ~ExitedNonZero)
    /\ [][(pc = "tallied" /\ pc' = "idle")
            => /\ tally = CountTally(results)
               /\ exit' = ExitWith(0, "")]_vars

\* The same, but for the enrichment that found no projection.
ExitZeroUnlessFatalOrNoMatch ==
    /\ [](ExitedNonZero
            => \/ exit.cause \in {"input", "store"}
               \/ enrichResult = NoMatchResult)
    /\ [][(pc = "tallied" /\ pc' = "idle")
            => /\ tally = CountTally(results)
               /\ exit' = ExitWith(0, "")]_vars

(***************************************************************************)
(* Ordering within a batch.                                                *)
(***************************************************************************)
\* Every upsert of the batch has settled.
AllSettled == \A i \in DOMAIN results : results[i] # Pending

\* C12: the per-record upserts of a batch may settle in any order, but the
\* counts are computed, and the store connection is released, only after
\* every upsert of the batch has settled; no upsert is outstanding when
\* the tally is reported.
C12_TallyAfterAllSettled ==
    /\ [](pc = "tallied" => AllSettled /\ Len(results) = file.length)
    /\ [](pc = "running" => tally = NoTally)
    /\ [][tally' # tally /\ tally' # NoTally
            => AllSettled /\ tally'.total = file.length]_vars
    /\ [][(pc # "idle" /\ pc' = "idle") => (pc = "tallied" /\ AllSettled)]_vars

\* A batch of two was tallied after both of its upserts settled.
BothSettledThenTallied ==
    /\ pc = "tallied"
    /\ file.length = 2
    /\ AllSettled
    /\ tally.total = 2

\* The second upsert of a batch has settled while the first is outstanding.
SecondSettledFirst ==
    /\ pc = "running"
    /\ file.length = 2
    /\ results[1] = Pending
    /\ results[2] # Pending

(***************************************************************************)
(* The missing start time.                                                 *)
(***************************************************************************)
\* The timestamp inputs that are missing or empty.
MissingTimestamps == {Undefined, Null, EmptyString}

\* C13: for a missing or empty timestamp the date normalizer returns the
\* current instant instead of failing, and storeProjections treats that
\* value as a sentinel for missing data: a projection whose startTime is
\* missing is not persisted with the processing instant as its start time.
C13_MissingStartTimeIsSentinel ==
    /\ [](\A s \in MissingTimestamps :
            parseISODatePreservingTimezone(s, now) = NewDate(now))
    /\ [][\A i \in 1..MaxBatch :
            (SettlesOn(i) /\ script = "storeProjections"
               /\ last'.record.startTime \in MissingTimestamps
               /\ results'[i].success)
              => ~\E r \in projections' :
                    /\ Matches(r, KeyOf(last'.record))
                    /\ r.startTime = NewDate(file.startedAt)]_vars

\* The normalizer's part alone.
MissingTimestampGivesNow ==
    \A s \in MissingTimestamps :
        parseISODatePreservingTimezone(s, now) = NewDate(now)

(***************************************************************************)
(* Numeric odds.                                                           *)
(***************************************************************************)
\* A payload value that is a number or a numeric string.
IsNumeric(v) == parseFloat(v) # NaN

\* C14: in updateProjectionsWithOdds, every numeric patch field whose
\* payload value is a number or a numeric string v is stored as exactly v
\* on all matched projections, for every v including 0.
C14_NumericOddsStoredExactly ==
    [][(UpdateReturns /\ enrichResult'.success)
        => \A f \in NumericOdds :
              IsNumeric(enrich.oddsData[f])
                 => \A r \in OfGame(projections', enrich.gameId) :
                       r[f] = parseFloat(enrich.oddsData[f])]_vars

\* The same for every v other than 0.
NonZeroOddsStoredExactly ==
    [][(UpdateReturns /\ enrichResult'.success)
        => \A f \in NumericOdds :
              (IsNumeric(enrich.oddsData[f])
                 /\ parseFloat(enrich.oddsData[f]) # Num(0))
                 => \A r \in OfGame(projections', enrich.gameId) :
                       r[f] = parseFloat(enrich.oddsData[f])]_vars

(***************************************************************************)
(* The position of a record in its batch.                                  *)
(***************************************************************************)
\* The handler of index i, settling in this step, leaves the marker and the
\* table it would leave for the same record at the 0-based position j.
SameOutcomeAt(i, j) ==
    LET h == HandleProjection(projections, last'.record, j, file.startedAt,
                              FALSE)
    IN  /\ h.marker.success = results'[i].success
        /\ h.table = projections'

\* C15: in storeProjections the outcome of a record (stored or reported as
\* failed) and its stored fields depend only on the record's content and
\* the store, not on its position in the batch: the same record, in
\* particular one with a missing startTime, yields the same outcome among
\* the first three records of the batch and later.
C15_OutcomeIndependentOfPosition ==
    [][\A i \in 1..MaxLongBatch :
        SettlesOn(i)
           => \A j \in 0..(MaxLongBatch - 1) : SameOutcomeAt(i, j)]_vars

\* The same for the records that have a startTime.
PositionIndependentWithStartTime ==
    [][\A i \in 1..MaxLongBatch :
        (SettlesOn(i) /\ last'.record.startTime \notin {Undefined, Null})
           => \A j \in 0..(MaxLongBatch - 1) : SameOutcomeAt(i, j)]_vars

(***************************************************************************)
(* Invocations that interleave on the store.                               *)
(***************************************************************************)
\* C16: whenever updateProjectionsWithOdds returns {success: true, count},
\* count is at least 1 and equals the number of projections with that
\* gameId found by its preceding existence check, under every interleaving
\* with a concurrently running deleteOldProjections or storeProjections.
C16_CountIsWhatWasFound ==
    [][(UpdateReturns /\ enrichResult'.success)
        => /\ enrichResult'.count >= 1
           /\ enrichResult'.count = enrich.found]_vars

\* The stored projection an input record is about.
StoredOf(table, record) ==
    {r \in table : r.projectionId = record.projectionId}

\* The upsert settling in this step is of an existing projection.
UpsertsExisting(i) ==
    /\ SettlesOn(i)
    /\ results'[i].success
    /\ StoredOf(projections, last'.record) # {}

\* The store after the bulk update of the enrichment in flight, were it to
\* run on `table` at clock reading t.
AfterEnrichment(table, t) ==
    UpdateOdds(table, enrich.gameId, enrich.oddsData, t, FALSE).table

\* The store after the upsert settling in this step, were it to run on
\* `table`.
AfterUpsert(table, i) ==
    HandleProjection(table, last'.record, i - 1, file.startedAt, FALSE).table

\* C17: a storeProjections upsert of an existing projection leaves all ten
\* odds-snapshot fields unchanged, and an enrichment writes only those
\* fields; hence for a projection whose gameId the upsert does not change,
\* every interleaving of one upsert and one enrichment on it ends in the
\* same stored state as both serial orders.
C17_NoLostUpdate ==
    /\ [][\A i \in 1..MaxBatch :
            UpsertsExisting(i)
              => \A r \in StoredOf(projections, last'.record) :
                    \A q \in StoredOf(projections', last'.record) :
                       \A f \in ProjectionOddsFields : q[f] = r[f]]_vars
    /\ [][UpdateReturns
            => /\ Cardinality(projections') = Cardinality(projections)
               /\ \A r \in projections : \E q \in projections' :
                     \A f \in DOMAIN r \ ProjectionOddsFields : q[f] = r[f]]_vars
    /\ [][\A i \in 1..MaxBatch :
            (UpsertsExisting(i) /\ enrich.pc = "update"
               /\ \A r \in StoredOf(projections, last'.record) :
                     r.gameId = last'.record.gameId)
              => \A t \in now..MaxNow :
                    /\ projections' = AfterUpsert(projections, i)
                    /\ AfterEnrichment(projections', t)
                          = AfterUpsert(AfterEnrichment(projections, t), i)]_vars

\* An upsert of a stored projection settled between the two store calls of
\* an enrichment, which then wrote its odds to it.
UpsertedWhileEnriching ==
    /\ enrich.pc = "returned"
    /\ enrichResult.success
    /\ \E i \in DOMAIN caught :
          /\ caught[i] # Pending
          /\ caught[i].enriching
          /\ caught[i].thrown = ""
          /\ \E r \in projections :
                /\ r.projectionId = caught[i].name
                /\ r.gameId = enrich.gameId
                /\ r.homeTeam = enrich.oddsData.homeTeam

====
